---- MODULE Spec2Model ----
(***************************************************************************)
(* Traffic-aware navigation UI: the destination resolver (SearchInput),    *)
(* the route fetcher and classifier (TrafficMap.getRoutes) and the         *)
(* multi-stop optimizer (OptimizationPanel).                               *)
(*                                                                         *)
(* Every handler of the three components is one action.  An async handler  *)
(* is cut at its awaits: the part up to the first fetch is one action, the *)
(* continuation that runs when the response settles is another, and the    *)
(* request in flight between the two is a record in searches, lookups,     *)
(* adds or opts.  A record keeps what the handler's closure captured when  *)
(* it was called.  Indices are 0-based as in the source; sequences are     *)
(* 1-based, so routes[i + 1] is the source's routes[i].                    *)
(***************************************************************************)
EXTENDS Integers, Sequences, FiniteSets

(***************************************************************************)
(* Bounds of the model.                                                    *)
(***************************************************************************)
MaxTags == 3          \* congestion tags per leg, pure classification runs
MaxRoutes == 2        \* route alternatives in one directions response
MaxSearches == 1      \* getRoutes calls in flight at once
MaxOverlap == 2       \* getRoutes calls in flight at once, overlapping searches
MaxLookups == 2       \* autocomplete lookups in flight at once
MaxSuggestions == 2   \* features in one autocomplete response
MaxWaypoints == 2     \* waypoints in the optimizer's list and on their way into it
MaxOpts == 2          \* optimization requests in flight at once
MaxClock == 1         \* readings of Date.now() during one session

(***************************************************************************)
(* Values.                                                                 *)
(***************************************************************************)
Null == "null"              \* userLocation before the geolocation fix
Here == "here"              \* the coordinate of the geolocation fix

\* An optional value: undefined, or present with a value.
Undefined == <<>>

Present(x) == <<x>>

ValueOf(optional) == optional[1]

\* What a request settles with: fetch() or json() rejects or the body is
\* malformed (Fail), the body carries nothing the handler can use (Absent),
\* or the body carries the list the handler reads (Ok).
Fail == [kind |-> "fail"]

Absent == [kind |-> "absent"]

Ok(value) == [kind |-> "ok", value |-> value]

\* The congestion categories of the directions service.
Tags == {"low", "moderate", "heavy", "severe"}

\* Text is a sequence of characters, so that length and trim are computed.
Texts == { <<>>,
           <<" ", " ", " ">>,
           <<"a", "a">>,
           <<"a", "a", "a">>,
           <<" ", "a", "a">> }

Includes(seq, x) == \E i \in 1..Len(seq) : seq[i] = x

RECURSIVE TrimStart(_)
TrimStart(s) == IF s # <<>> /\ Head(s) = " " THEN TrimStart(Tail(s)) ELSE s

RECURSIVE TrimEnd(_)
TrimEnd(s) ==
  IF s # <<>> /\ s[Len(s)] = " " THEN TrimEnd(SubSeq(s, 1, Len(s) - 1)) ELSE s

\* String.prototype.trim
Trim(s) == TrimEnd(TrimStart(s))

\* The full name of the k-th place the geocoding service knows: longer than
\* any text the user types.
PlaceName(k) == [j \in 1..(k + 3) |-> "a"]

\* The centers the geocoder answers a text with.
Centers == {1, 2}

\* Index.tsx renders TrafficMap, and with it SearchInput and the optimizer,
\* only once a token is set; the token never changes afterwards.
mapboxToken == TRUE

\* All sequences over S of length 0..n.
SeqsUpTo(S, n) == UNION { [1..k -> S] : k \in 0..n }

(***************************************************************************)
(* Route classification (TrafficMap.getRoutes, the map over the routes).   *)
(***************************************************************************)
\* route.legs[0]?.annotation?.congestion || []
CongestionLevels(congestion) ==
  IF congestion = Undefined THEN <<>> ELSE ValueOf(congestion)

HasTrafficNoModerate(congestionLevels) ==
  \E i \in 1..Len(congestionLevels) : congestionLevels[i] \in {"heavy", "severe"}

HasTraffic(congestionLevels) ==
  \E i \in 1..Len(congestionLevels) :
    congestionLevels[i] \in {"moderate", "heavy", "severe"}

TrafficLevelHeavyFirst(congestionLevels) ==
  IF Includes(congestionLevels, "heavy") THEN "moderate"
  ELSE IF Includes(congestionLevels, "severe") THEN "heavy"
  ELSE IF Includes(congestionLevels, "moderate") THEN "light"
  ELSE "free"

TrafficLevel(congestionLevels) ==
  IF Includes(congestionLevels, "severe") THEN "heavy"
  ELSE IF Includes(congestionLevels, "heavy") THEN "moderate"
  ELSE IF Includes(congestionLevels, "moderate") THEN "light"
  ELSE "free"

\* One element of processedRoutes.  geometry stands for the path: it is the
\* destination coordinate the path ends at.  duration and distance are
\* copied through and read by the formatting of the route list only.
ProcessRoute(route) ==
  LET congestionLevels == CongestionLevels(route.congestion)
  IN [ geometry     |-> route.geometry,
       congestion   |-> congestionLevels,
       hasTraffic   |-> HasTraffic(congestionLevels),
       trafficLevel |-> TrafficLevel(congestionLevels) ]

ProcessRoutes(rawRoutes) == [ i \in 1..Len(rawRoutes) |-> ProcessRoute(rawRoutes[i]) ]

\* processedRoutes.find(route => !route.hasTraffic || route.trafficLevel === 'free')
BetterRoute(processedRoutes) ==
  \E i \in 1..Len(processedRoutes) :
    ~processedRoutes[i].hasTraffic \/ processedRoutes[i].trafficLevel = "free"

AdvisoryAlways(processedRoutes) == processedRoutes[1].hasTraffic

\* The "Traffic Detected!" toast of getRoutes.
Advisory(processedRoutes) ==
  /\ processedRoutes[1].hasTraffic
  /\ Len(processedRoutes) > 1
  /\ BetterRoute(processedRoutes)

(***************************************************************************)
(* State.                                                                  *)
(***************************************************************************)
VARIABLES
  \* pure classification runs
  congestionIn,        \* the congestion field of one route of a response
  classified,          \* the processed route built from it, once built
  \* TrafficMap
  userLocation,        \* Null, or the coordinate of the geolocation fix
  geolocation,         \* "pending" until getCurrentPosition has called back
  routes,              \* the route candidates (RouteData[])
  selectedRouteIndex,
  destination,
  isLoading,
  showOptimization,
  mapRoutes,           \* the 'routes' source and layer of the map
  searches,            \* getRoutes calls in flight, oldest first
  \* SearchInput
  query,
  suggestions,
  showSuggestions,
  selectedIndex,
  timers,              \* pending debounce timeouts: the query each captured
  lookups,             \* searchSuggestions fetches in flight, oldest first
  lastInput,           \* what the user last did to the input's text
  \* OptimizationPanel
  waypoints,
  isOptimizing,
  newWaypoint,
  adds,                \* addWaypoint geocodes in flight
  opts,                \* optimizeRoute requests in flight
  clock,               \* the reading of Date.now()
  \* what the last handler or continuation did
  lastOp,              \* its name and outcome
  toasts,              \* the titles of the toasts it raised, in order
  requests,            \* the requests it issued, in order
  emitted,             \* its calls of onOptimizedRoute, in order: the visiting
                       \* order it had received and the name list it passed
  answered             \* the texts of the lookups whose responses it handled

classifyVars == <<congestionIn, classified>>
mapVars == <<userLocation, geolocation, routes, selectedRouteIndex, destination,
             isLoading, showOptimization, mapRoutes, searches>>
inputVars == <<query, suggestions, showSuggestions, selectedIndex, timers,
               lookups, lastInput>>
panelVars == <<waypoints, isOptimizing, newWaypoint, adds, opts, clock>>
outVars == <<lastOp, toasts, requests, emitted, answered>>
vars == <<classifyVars, mapVars, inputVars, panelVars, outVars>>

Out(op, raised, issued) ==
  /\ lastOp' = op
  /\ toasts' = raised
  /\ requests' = issued
  /\ emitted' = <<>>
  /\ answered' = <<>>

NoRoutesLayer == [kind |-> "none", routes |-> <<>>, highlight |-> 0]

\* State after the first render and its effects: the debounce effect of
\* SearchInput has already set its first timeout, for the empty query.
InitApp ==
  /\ userLocation = Null
  /\ geolocation = "pending"
  /\ routes = <<>>
  /\ selectedRouteIndex = 0
  /\ destination = <<>>
  /\ isLoading = FALSE
  /\ showOptimization = FALSE
  /\ mapRoutes = NoRoutesLayer
  /\ searches = <<>>
  /\ query = <<>>
  /\ suggestions = <<>>
  /\ showSuggestions = FALSE
  /\ selectedIndex = -1
  /\ timers = {<<>>}
  /\ lookups = <<>>
  /\ lastInput = "none"
  /\ waypoints = <<>>
  /\ isOptimizing = FALSE
  /\ newWaypoint = <<>>
  /\ adds = <<>>
  /\ opts = <<>>
  /\ clock = 0
  /\ lastOp = "init"
  /\ toasts = <<>>
  /\ requests = <<>>
  /\ emitted = <<>>
  /\ answered = <<>>

Init ==
  /\ InitApp
  /\ congestionIn = Undefined
  /\ classified = Undefined

\* seq without its i-th element
Remove(seq, i) == SubSeq(seq, 1, i - 1) \o SubSeq(seq, i + 1, Len(seq))

(***************************************************************************)
(* TrafficMap: geolocation.                                                *)
(***************************************************************************)
GeolocationFix ==
  /\ geolocation = "pending"
  /\ geolocation' = "done"
  /\ userLocation' = Here
  /\ Out("geolocation:fix", <<>>, <<>>)
  /\ UNCHANGED <<routes, selectedRouteIndex, destination, isLoading,
                 showOptimization, mapRoutes, searches>>
  /\ UNCHANGED <<classifyVars, inputVars, panelVars>>

GeolocationDenied ==
  /\ geolocation = "pending"
  /\ geolocation' = "done"
  /\ Out("geolocation:denied", <<"Location Access Denied">>, <<>>)
  /\ UNCHANGED <<userLocation, routes, selectedRouteIndex, destination, isLoading,
                 showOptimization, mapRoutes, searches>>
  /\ UNCHANGED <<classifyVars, inputVars, panelVars>>

(***************************************************************************)
(* TrafficMap: getRoutes.                                                  *)
(***************************************************************************)
NeedsGeocodeNever(coordinates) == FALSE

\* if (!destCoords)
NeedsGeocode(coordinates) == coordinates = Undefined

\* The getRoutes call in flight after its synchronous part.  It keeps what
\* the closure of the render it was called from holds: selectedRouteIndex
\* is the index displayRoutes will read when the call settles.  The text
\* dest goes into the geocode request and is read no more.
NewSearch(dest, coordinates) ==
  [ coordinates        |-> coordinates,
    destCoords         |-> coordinates,
    pc                 |-> IF NeedsGeocode(coordinates) THEN "geocode" ELSE "directions",
    geocodeCalls       |-> IF NeedsGeocode(coordinates) THEN 1 ELSE 0,
    directionsCalls    |-> IF NeedsGeocode(coordinates) THEN 0 ELSE 1,
    selectedRouteIndex |-> selectedRouteIndex ]

\* if (!userLocation || !destination) return;
GetRoutesReturnsEarly(dest) == userLocation = Null \/ dest = <<>>

\* getRoutes up to its first await, called by a handler named op while
\* fewer than cap calls are in flight.  The code has no such limit: neither
\* getRoutes nor the handlers of SearchInput that call it read isLoading.
GetRoutesWithin(cap, op, dest, coordinates) ==
  IF GetRoutesReturnsEarly(dest)
  THEN /\ Out(op, <<>>, <<>>)
       /\ UNCHANGED <<isLoading, destination, searches>>
  ELSE /\ Len(searches) < cap
       /\ isLoading' = TRUE
       /\ destination' = dest
       /\ searches' = Append(searches, NewSearch(dest, coordinates))
       /\ Out(op, <<>>, <<NewSearch(dest, coordinates).pc>>)

\* getRoutes up to its first await, one search at a time.
GetRoutes(op, dest, coordinates) == GetRoutesWithin(MaxSearches, op, dest, coordinates)

\* What the geocoder answers: a failure (a body without features, on which
\* the handler throws, is one), an empty features list (Absent), or the
\* first feature's center.
GeocodeAnswers == {Fail, Absent} \cup { Ok(c) : c \in Centers }

NotFoundFallsThrough == <<"Destination Not Found", "Route Error">>

\* The toast of the branch if (!geocodeData.features.length), which then
\* clears the loading flag and returns.
NotFoundToasts == <<"Destination Not Found">>

\* The continuation after the geocode fetch of search i.
GeocodeResponse(i, answer) ==
  /\ i \in 1..Len(searches)
  /\ searches[i].pc = "geocode"
  /\ IF answer.kind = "fail"
     THEN /\ searches' = Remove(searches, i)
          /\ isLoading' = FALSE
          /\ Out("getRoutes:error", <<"Route Error">>, <<>>)
     ELSE IF answer.kind = "absent"
     THEN /\ searches' = Remove(searches, i)
          /\ isLoading' = FALSE
          /\ Out("getRoutes:notfound", NotFoundToasts, <<>>)
     ELSE /\ searches' = [searches EXCEPT ![i].destCoords = Present(answer.value),
                                          ![i].pc = "directions",
                                          ![i].directionsCalls = @ + 1]
          /\ UNCHANGED isLoading
          /\ Out("getRoutes:geocoded", <<>>, <<"directions">>)
  /\ UNCHANGED <<userLocation, geolocation, routes, selectedRouteIndex, destination,
                 showOptimization, mapRoutes>>
  /\ UNCHANGED <<classifyVars, inputVars, panelVars>>

\* The per-leg congestion fields the directions responses of the model carry.
CongestionSamples ==
  { Undefined, Present(<<"heavy", "low">>) }

\* The geometry of a route that the body carries without one: route.geometry
\* is undefined and is copied as such into the processed route.
NoGeometry == 0

\* routeData.routes of a response for destination coordinate c: absent,
\* empty, up to MaxRoutes alternatives, or one route without geometry.
DirectionsAnswers(c) ==
  {Fail, Absent} \cup
  { Ok(list) :
      list \in SeqsUpTo({ [geometry |-> c, congestion |-> g] : g \in CongestionSamples },
                        MaxRoutes) } \cup
  { Ok(<<[geometry |-> NoGeometry, congestion |-> Undefined]>>) }

\* routeData[0].geometry.coordinates, read for the destination marker,
\* throws a TypeError when the first route has no geometry.
DisplayRoutesThrows(routeData) == routeData[1].geometry = NoGeometry

\* displayRoutes(routeData), run from a closure whose selectedRouteIndex is
\* idx.  It removes the 'routes' layer and source before it reads the
\* geometry, and adds the new ones after.
DisplayRoutes(routeData, idx) ==
  IF DisplayRoutesThrows(routeData)
  THEN NoRoutesLayer
  ELSE [kind |-> "routes", routes |-> routeData, highlight |-> idx]

\* The continuation after the directions fetch of search i.  It calls
\* setRoutes and displayRoutes and never setSelectedRouteIndex; what
\* displayRoutes throws is caught by the catch of getRoutes, after setRoutes.
DirectionsResponse(i, answer) ==
  /\ i \in 1..Len(searches)
  /\ searches[i].pc = "directions"
  /\ searches' = Remove(searches, i)
  /\ isLoading' = FALSE
  /\ IF answer.kind = "fail"
     THEN /\ Out("getRoutes:error", <<"Route Error">>, <<>>)
          /\ UNCHANGED <<routes, mapRoutes>>
     ELSE IF answer.kind = "absent" \/ Len(answer.value) = 0
     THEN /\ Out("getRoutes:empty", <<>>, <<>>)
          /\ UNCHANGED <<routes, mapRoutes>>
     ELSE LET processedRoutes == ProcessRoutes(answer.value)
          IN /\ routes' = processedRoutes
             /\ mapRoutes' = DisplayRoutes(processedRoutes, searches[i].selectedRouteIndex)
             /\ IF DisplayRoutesThrows(processedRoutes)
                THEN Out("getRoutes:error", <<"Route Error">>, <<>>)
                ELSE Out("getRoutes:routes",
                         IF Advisory(processedRoutes) THEN <<"Traffic Detected!">> ELSE <<>>,
                         <<>>)
  /\ UNCHANGED <<userLocation, geolocation, selectedRouteIndex, destination,
                 showOptimization>>
  /\ UNCHANGED <<classifyVars, inputVars, panelVars>>

(***************************************************************************)
(* TrafficMap: the route list and the optimizer's toggle.                  *)
(***************************************************************************)
\* A click on the button of route index; the list renders one button per
\* element of routes.  displayRoutes is the one of the render the click
\* happens in, whose selectedRouteIndex is the index before the click.
selectRoute(index) ==
  /\ index \in 0..(Len(routes) - 1)
  /\ selectedRouteIndex' = index
  /\ mapRoutes' = IF Len(routes) > 0
                  THEN DisplayRoutes(routes, selectedRouteIndex)
                  ELSE mapRoutes
  /\ Out("selectRoute", <<>>, <<>>)
  /\ UNCHANGED <<userLocation, geolocation, routes, destination, isLoading,
                 showOptimization, searches>>
  /\ UNCHANGED <<classifyVars, inputVars, panelVars>>

(***************************************************************************)
(* SearchInput.                                                            *)
(***************************************************************************)
Suggestion(k) == [id |-> k, place_name |-> PlaceName(k), center |-> k]

\* data.features of an autocomplete response: a ranked list of places.
SuggestionLists == { [k \in 1..n |-> Suggestion(k)] : n \in 0..MaxSuggestions }

\* The longest of them.
Suggestions == [k \in 1..MaxSuggestions |-> Suggestion(k)]

LookupAnswers == {Fail, Absent} \cup { Ok(list) : list \in SuggestionLists }

DebounceNoCleanup(old, new) == IF new = old THEN timers ELSE timers \cup {new}

\* The debounce effect, deps [query, mapboxToken]: when a render changes
\* query, the cleanup of the previous run clears its timeout and the new
\* run sets one whose callback captures the new query.  A setQuery to the
\* value query already has renders nothing and runs no effect.
Debounce(old, new) == IF new = old THEN timers ELSE {new}

\* handleInputChange: the input fires it when its value changes.
handleInputChange(value) ==
  /\ value # query
  /\ query' = value
  /\ timers' = Debounce(query, value)
  /\ lastInput' = "typed"
  /\ Out("handleInputChange", <<>>, <<>>)
  /\ UNCHANGED <<suggestions, showSuggestions, selectedIndex, lookups>>
  /\ UNCHANGED <<classifyVars, mapVars, panelVars>>

\* if (!mapboxToken || !searchQuery.trim()) return;
SearchSuggestionsReturnsEarly(searchQuery) == ~mapboxToken \/ Trim(searchQuery) = <<>>

IssueAbortingEarlier(inFlight, searchQuery) == <<searchQuery>>

\* The fetch of searchSuggestions joins the fetches in flight: it has no
\* AbortController, and no earlier fetch is cancelled.
Issue(inFlight, searchQuery) == Append(inFlight, searchQuery)

\* The callback of the debounce timeout that captured q.
DebounceFires(q) ==
  /\ q \in timers
  /\ timers' = timers \ {q}
  /\ IF Len(q) > 2
     THEN IF SearchSuggestionsReturnsEarly(q)
          THEN /\ Out("debounce:return", <<>>, <<>>)
               /\ UNCHANGED <<suggestions, showSuggestions, lookups>>
          ELSE /\ Len(lookups) < MaxLookups
               /\ lookups' = Issue(lookups, q)
               /\ Out("debounce:lookup", <<>>, <<"autocomplete">>)
               /\ UNCHANGED <<suggestions, showSuggestions>>
     ELSE /\ suggestions' = <<>>
          /\ showSuggestions' = FALSE
          /\ Out("debounce:clear", <<>>, <<>>)
          /\ UNCHANGED lookups
  /\ UNCHANGED <<query, selectedIndex, lastInput>>
  /\ UNCHANGED <<classifyVars, mapVars, panelVars>>

\* The continuation of searchSuggestions after the fetch of lookup i.  It
\* sets the suggestions from every body with features, whichever lookup
\* the body answers.
LookupResponse(i, answer) ==
  /\ i \in 1..Len(lookups)
  /\ lookups' = Remove(lookups, i)
  /\ IF answer.kind # "ok"
     THEN /\ lastOp' = "searchSuggestions:none"
          /\ UNCHANGED <<suggestions, showSuggestions, selectedIndex>>
     ELSE /\ suggestions' = answer.value
          /\ showSuggestions' = TRUE
          /\ selectedIndex' = -1
          /\ lastOp' = "searchSuggestions:features"
  /\ toasts' = <<>>
  /\ requests' = <<>>
  /\ emitted' = <<>>
  /\ answered' = <<lookups[i]>>
  /\ UNCHANGED <<query, timers, lastInput>>
  /\ UNCHANGED <<classifyVars, mapVars, panelVars>>

\* selectSuggestion, then getRoutes through onDestinationSelect.
SelectSuggestion(op, suggestion) ==
  /\ query' = suggestion.place_name
  /\ showSuggestions' = FALSE
  /\ suggestions' = <<>>
  /\ selectedIndex' = -1
  /\ timers' = Debounce(query, suggestion.place_name)
  /\ lastInput' = "selected"
  /\ GetRoutes(op, suggestion.place_name, Present(suggestion.center))
  /\ UNCHANGED lookups
  /\ UNCHANGED <<userLocation, geolocation, routes, selectedRouteIndex,
                 showOptimization, mapRoutes>>
  /\ UNCHANGED <<classifyVars, panelVars>>

\* handleSearch, then getRoutes through onDestinationSelect.
HandleSearch(op) ==
  /\ IF Trim(query) # <<>>
     THEN /\ showSuggestions' = FALSE
          /\ lastInput' = "submitted"
          /\ GetRoutes(op, Trim(query), Undefined)
     ELSE /\ Out(op, <<>>, <<>>)
          /\ UNCHANGED <<showSuggestions, lastInput, isLoading, destination, searches>>
  /\ UNCHANGED <<query, suggestions, selectedIndex, timers, lookups>>
  /\ UNCHANGED <<userLocation, geolocation, routes, selectedRouteIndex,
                 showOptimization, mapRoutes>>
  /\ UNCHANGED <<classifyVars, panelVars>>

Keys == {"ArrowDown", "ArrowUp", "Enter", "Escape"}

\* prev => prev < suggestions.length - 1 ? prev + 1 : prev
ArrowDown(prev) == IF prev < Len(suggestions) - 1 THEN prev + 1 ELSE prev

\* prev => prev > 0 ? prev - 1 : -1
ArrowUp(prev) == IF prev > 0 THEN prev - 1 ELSE -1

handleKeyDown(key) ==
  /\ key \in Keys
  /\ IF ~showSuggestions \/ Len(suggestions) = 0
     THEN IF key = "Enter"
          THEN HandleSearch("handleSearch:enter")
          ELSE /\ Out("handleKeyDown:ignored", <<>>, <<>>)
               /\ UNCHANGED <<classifyVars, mapVars, inputVars, panelVars>>
     ELSE CASE key = "ArrowDown" ->
                 /\ selectedIndex' = ArrowDown(selectedIndex)
                 /\ Out("handleKeyDown:down", <<>>, <<>>)
                 /\ UNCHANGED <<query, suggestions, showSuggestions, timers,
                                lookups, lastInput>>
                 /\ UNCHANGED <<classifyVars, mapVars, panelVars>>
            [] key = "ArrowUp" ->
                 /\ selectedIndex' = ArrowUp(selectedIndex)
                 /\ Out("handleKeyDown:up", <<>>, <<>>)
                 /\ UNCHANGED <<query, suggestions, showSuggestions, timers,
                                lookups, lastInput>>
                 /\ UNCHANGED <<classifyVars, mapVars, panelVars>>
            [] key = "Enter" ->
                 IF selectedIndex >= 0
                 THEN SelectSuggestion("selectSuggestion:enter",
                                       suggestions[selectedIndex + 1])
                 ELSE HandleSearch("handleSearch:enter")
            [] key = "Escape" ->
                 /\ showSuggestions' = FALSE
                 /\ selectedIndex' = -1
                 /\ Out("handleKeyDown:escape", <<>>, <<>>)
                 /\ UNCHANGED <<query, suggestions, timers, lookups, lastInput>>
                 /\ UNCHANGED <<classifyVars, mapVars, panelVars>>

\* The dropdown renders one button per suggestion while it is shown.
DropdownShown == showSuggestions /\ Len(suggestions) > 0

\* onClick of the i-th suggestion button (i is 0-based)
ClickSuggestion(i) ==
  /\ DropdownShown
  /\ i \in 0..(Len(suggestions) - 1)
  /\ SelectSuggestion("selectSuggestion:click", suggestions[i + 1])

\* onMouseEnter of the i-th suggestion button
HoverSuggestion(i) ==
  /\ DropdownShown
  /\ i \in 0..(Len(suggestions) - 1)
  /\ selectedIndex' = i
  /\ Out("onMouseEnter", <<>>, <<>>)
  /\ UNCHANGED <<query, suggestions, showSuggestions, timers, lookups, lastInput>>
  /\ UNCHANGED <<classifyVars, mapVars, panelVars>>

\* disabled={!query.trim() || isLoading}
SearchButtonDisabled == Trim(query) = <<>> \/ isLoading

ClickSearch ==
  /\ ~SearchButtonDisabled
  /\ HandleSearch("handleSearch:click")

\* onFocus of the input
FocusInput ==
  /\ showSuggestions' = IF Len(suggestions) > 0 THEN TRUE ELSE showSuggestions
  /\ Out("onFocus", <<>>, <<>>)
  /\ UNCHANGED <<query, suggestions, selectedIndex, timers, lookups, lastInput>>
  /\ UNCHANGED <<classifyVars, mapVars, panelVars>>

\* handleClickOutside: a mousedown outside the control
ClickOutside ==
  /\ showSuggestions' = FALSE
  /\ Out("handleClickOutside", <<>>, <<>>)
  /\ UNCHANGED <<query, suggestions, selectedIndex, timers, lookups, lastInput>>
  /\ UNCHANGED <<classifyVars, mapVars, panelVars>>

(***************************************************************************)
(* OptimizationPanel.  TrafficMap renders it only while showOptimization   *)
(* is true, so closing the panel unmounts it: its state is discarded, the  *)
(* next panel starts from the initial state, and the setters a request in  *)
(* flight calls later reach no mounted component (live = FALSE).           *)
(***************************************************************************)
Unmounted(inFlight) == [ i \in 1..Len(inFlight) |-> [inFlight[i] EXCEPT !.live = FALSE] ]

\* The Zap button of TrafficMap: setShowOptimization(!showOptimization)
ToggleOptimization ==
  /\ showOptimization' = ~showOptimization
  /\ IF showOptimization
     THEN /\ waypoints' = <<>>
          /\ isOptimizing' = FALSE
          /\ newWaypoint' = <<>>
          /\ adds' = Unmounted(adds)
          /\ opts' = Unmounted(opts)
     ELSE UNCHANGED <<waypoints, isOptimizing, newWaypoint, adds, opts>>
  /\ Out("toggleOptimization", <<>>, <<>>)
  /\ UNCHANGED clock
  /\ UNCHANGED <<userLocation, geolocation, routes, selectedRouteIndex, destination,
                 isLoading, mapRoutes, searches>>
  /\ UNCHANGED <<classifyVars, inputVars>>

\* The texts typed into the add field, and the places the geocoder finds
\* for them.
WaypointTexts == { <<>>, <<"a", "a", "a">> }

WaypointPlaces == {1, 2}

\* onChange of the add field
TypeWaypoint(value) ==
  /\ showOptimization
  /\ value # newWaypoint
  /\ newWaypoint' = value
  /\ Out("setNewWaypoint", <<>>, <<>>)
  /\ UNCHANGED <<waypoints, isOptimizing, adds, opts, clock>>
  /\ UNCHANGED <<classifyVars, mapVars, inputVars>>

\* if (!placeName.trim() || !mapboxToken) return;
AddWaypointReturnsEarly(placeName) == Trim(placeName) = <<>> \/ ~mapboxToken

\* addWaypoint up to its fetch
AddWaypoint(op, placeName) ==
  /\ IF AddWaypointReturnsEarly(placeName)
     THEN /\ Out(op, <<>>, <<>>)
          /\ UNCHANGED adds
     ELSE /\ Len(waypoints) + Len(adds) < MaxWaypoints
          /\ adds' = Append(adds, [live |-> TRUE])
          /\ Out(op, <<>>, <<"waypoint-geocode">>)
  /\ UNCHANGED <<waypoints, isOptimizing, newWaypoint, opts, clock>>
  /\ UNCHANGED <<classifyVars, mapVars, inputVars>>

\* Enter in the add field
AddWaypointEnter ==
  /\ showOptimization
  /\ AddWaypoint("addWaypoint:enter", newWaypoint)

\* The add button: disabled={!newWaypoint.trim()}
AddWaypointClick ==
  /\ showOptimization
  /\ Trim(newWaypoint) # <<>>
  /\ AddWaypoint("addWaypoint:click", newWaypoint)

\* What Date.now() can read: the millisecond of the previous reading, or
\* a later one.
Readings == { now \in clock..(clock + 1) : now <= MaxClock }

\* What the geocoder answers to addWaypoint: a failure, no features field,
\* or the features: none, or the one the limit allows (place k).
AddAnswers == {Fail, Absent, Ok(<<>>)} \cup { Ok(<<k>>) : k \in WaypointPlaces }

\* The continuation of addWaypoint after the fetch of add i, when
\* Date.now() reads now.
AddResponse(i, answer, now) ==
  /\ i \in 1..Len(adds)
  /\ now \in Readings
  /\ adds' = Remove(adds, i)
  /\ IF answer.kind = "fail"
     THEN /\ Out("addWaypoint:error", <<"Error adding waypoint">>, <<>>)
          /\ UNCHANGED <<waypoints, newWaypoint, clock>>
     ELSE IF answer.kind = "absent" \/ answer.value = <<>>
     THEN /\ Out("addWaypoint:notfound", <<"Location not found">>, <<>>)
          /\ UNCHANGED <<waypoints, newWaypoint, clock>>
     ELSE /\ Out("addWaypoint:added", <<>>, <<>>)
          /\ clock' = now
          /\ IF adds[i].live
             THEN /\ waypoints' = Append(waypoints,
                                         [ id          |-> now,
                                           name        |-> PlaceName(answer.value[1]),
                                           coordinates |-> answer.value[1] ])
                  /\ newWaypoint' = <<>>
             ELSE UNCHANGED <<waypoints, newWaypoint>>
  /\ UNCHANGED <<isOptimizing, opts>>
  /\ UNCHANGED <<classifyVars, mapVars, inputVars>>

\* prev.filter(wp => wp.id !== id)
RECURSIVE FilterOutId(_, _)
FilterOutId(list, id) ==
  IF list = <<>> THEN <<>>
  ELSE IF Head(list).id # id
       THEN <<Head(list)>> \o FilterOutId(Tail(list), id)
       ELSE FilterOutId(Tail(list), id)

\* The remove button of the i-th waypoint of the list (i is 0-based)
removeWaypoint(i) ==
  /\ showOptimization
  /\ i \in 0..(Len(waypoints) - 1)
  /\ waypoints' = FilterOutId(waypoints, waypoints[i + 1].id)
  /\ Out("removeWaypoint", <<>>, <<>>)
  /\ UNCHANGED <<isOptimizing, newWaypoint, adds, opts, clock>>
  /\ UNCHANGED <<classifyVars, mapVars, inputVars>>

\* The Clear button, rendered while the list is not empty
clearWaypoints ==
  /\ showOptimization
  /\ Len(waypoints) > 0
  /\ waypoints' = <<>>
  /\ Out("clearWaypoints", <<>>, <<>>)
  /\ UNCHANGED <<isOptimizing, newWaypoint, adds, opts, clock>>
  /\ UNCHANGED <<classifyVars, mapVars, inputVars>>

OptimizeNeedsOneWaypoint == userLocation = Null \/ Len(waypoints) < 1

\* if (!userLocation || waypoints.length < 2)
OptimizeRejects == userLocation = Null \/ Len(waypoints) < 2

\* waypoints.map(wp => wp.name)
Names(list) == [ i \in 1..Len(list) |-> list[i].name ]

\* optimizeRoute up to its fetch.  The request keeps the waypoints of the
\* closure it was called from, of which the continuation reads the names.
optimizeRoute ==
  /\ showOptimization
  /\ IF OptimizeRejects
     THEN /\ Out("optimizeRoute:rejected", <<"Need more waypoints">>, <<>>)
          /\ UNCHANGED <<isOptimizing, opts>>
     ELSE /\ Len(opts) < MaxOpts
          /\ isOptimizing' = TRUE
          /\ opts' = Append(opts, [live |-> TRUE, names |-> Names(waypoints)])
          /\ Out("optimizeRoute:requested", <<>>, <<"optimize">>)
  /\ UNCHANGED <<waypoints, newWaypoint, adds, clock>>
  /\ UNCHANGED <<classifyVars, mapVars, inputVars>>

\* disabled={waypoints.length < 2 || isOptimizing || !userLocation}
OptimizeButtonDisabled == Len(waypoints) < 2 \/ isOptimizing \/ userLocation = Null

\* A click on the Optimize button
ClickOptimize ==
  /\ ~OptimizeButtonDisabled
  /\ optimizeRoute

\* optimizedTrip.waypoints of a response to a chain of n + 1 coordinates:
\* the waypoint_index of each entry, the origin first.
WaypointOrders(n) ==
  { order \in [1..(n + 1) -> 0..n] :
      /\ order[1] = 0
      /\ \/ \A j, k \in 1..(n + 1) : order[j] = order[k] => j = k
         \/ \A j \in 1..(n + 1) : order[j] = 0 }

\* The labels "Your Location" and `Stop ${index}`, as texts; the number of a
\* stop is written in tally marks.
YourLocation == <<"Your Location">>

StopLabel(index) == <<"Stop ">> \o [j \in 1..index |-> "|"]

OptimizedWaypointsNoOffset(waypointOrder, names) ==
  [ index \in 1..Len(waypointOrder) |->
      IF index = 1 THEN YourLocation
      ELSE IF waypointOrder[index] + 1 \in 1..Len(names)
           THEN names[waypointOrder[index] + 1]
           ELSE StopLabel(index - 1) ]

\* The name list optimizeRoute builds from the returned order: names are
\* the names of the waypoints of its closure, and waypoints[k - 1] of the
\* source is names[k] here.
OptimizedWaypoints(waypointOrder, names) ==
  [ index \in 1..Len(waypointOrder) |->
      IF index = 1 THEN YourLocation
      ELSE IF waypointOrder[index] \in 1..Len(names)
           THEN names[waypointOrder[index]]
           ELSE StopLabel(index - 1) ]

\* handleOptimizedRoute draws the single optimized line, in the selected
\* style; the name list it is given is logged and not drawn.
OptimizedLayer == [kind |-> "optimized", routes |-> <<>>, highlight |-> 0]

OptimizeAnswers(n) == {Fail, Absent} \cup { Ok(order) : order \in WaypointOrders(n) }

\* The continuation of optimizeRoute after the fetch of request i.  On a
\* trip it calls handleOptimizedRoute, which clears the routes and closes
\* the panel; the setIsOptimizing(false) of the finally block then reaches
\* a mounted panel only when no trip came back.
OptimizeResponse(i, answer) ==
  /\ i \in 1..Len(opts)
  /\ answer \in OptimizeAnswers(Len(opts[i].names))
  /\ IF answer.kind # "ok"
     THEN /\ opts' = Remove(opts, i)
          /\ isOptimizing' = IF opts[i].live THEN FALSE ELSE isOptimizing
          /\ Out(IF answer.kind = "fail" THEN "optimizeRoute:error" ELSE "optimizeRoute:empty",
                 IF answer.kind = "fail" THEN <<"Optimization failed">> ELSE <<>>,
                 <<>>)
          /\ UNCHANGED <<waypoints, newWaypoint, adds>>
          /\ UNCHANGED <<routes, showOptimization, mapRoutes>>
     ELSE /\ mapRoutes' = OptimizedLayer
          /\ routes' = <<>>
          /\ showOptimization' = FALSE
          /\ waypoints' = <<>>
          /\ isOptimizing' = FALSE
          /\ newWaypoint' = <<>>
          /\ adds' = Unmounted(adds)
          /\ opts' = Unmounted(Remove(opts, i))
          /\ lastOp' = "optimizeRoute:optimized"
          /\ toasts' = <<"Route Optimized!">>
          /\ requests' = <<>>
          /\ emitted' = << [ waypointOrder |-> answer.value,
                              waypoints     |-> OptimizedWaypoints(answer.value,
                                                                   opts[i].names) ] >>
          /\ answered' = <<>>
  /\ UNCHANGED clock
  /\ UNCHANGED <<userLocation, geolocation, selectedRouteIndex, destination,
                 isLoading, searches>>
  /\ UNCHANGED <<classifyVars, inputVars>>

(***************************************************************************)
(* Specifications.                                                         *)
(***************************************************************************)
\* The classification of one route, on every congestion field up to
\* MaxTags tags.
InitClassify ==
  /\ InitApp
  /\ congestionIn \in {Undefined} \cup { Present(tags) : tags \in SeqsUpTo(Tags, MaxTags) }
  /\ classified = Undefined

Classify ==
  /\ classified = Undefined
  /\ classified' = Present(ProcessRoute([geometry |-> 1, congestion |-> congestionIn]))
  /\ UNCHANGED <<congestionIn, mapVars, inputVars, panelVars, outVars>>

SpecClassify == InitClassify /\ [][Classify]_vars

\* SearchInput, typing the texts of typed and answered by answers.
NextInput(typed, answers) ==
  \/ \E value \in typed : handleInputChange(value)
  \/ \E q \in timers : DebounceFires(q)
  \/ \E i \in 1..Len(lookups), answer \in answers : LookupResponse(i, answer)
  \/ \E key \in Keys : handleKeyDown(key)
  \/ \E i \in 0..(Len(suggestions) - 1) : ClickSuggestion(i)
  \/ \E i \in 0..(Len(suggestions) - 1) : HoverSuggestion(i)
  \/ ClickSearch
  \/ FocusInput
  \/ ClickOutside

\* TrafficMap, its requests answered by every answer of the model.
NextMap ==
  \/ GeolocationFix
  \/ GeolocationDenied
  \/ \E i \in 1..Len(searches), answer \in GeocodeAnswers : GeocodeResponse(i, answer)
  \/ \E i \in { j \in 1..Len(searches) : searches[j].pc = "directions" } :
       \E answer \in DirectionsAnswers(ValueOf(searches[i].destCoords)) :
         DirectionsResponse(i, answer)
  \/ \E index \in 0..(Len(routes) - 1) : selectRoute(index)

\* TrafficMap, no directions request of which brings routes.
NextMapNoRoutes ==
  \/ GeolocationFix
  \/ GeolocationDenied
  \/ \E i \in 1..Len(searches), answer \in GeocodeAnswers : GeocodeResponse(i, answer)
  \/ \E i \in 1..Len(searches), answer \in {Fail, Absent} : DirectionsResponse(i, answer)

\* OptimizationPanel, its addWaypoint geocodes answered by addAnswers.
NextPanel(addAnswers) ==
  \/ ToggleOptimization
  \/ \E value \in WaypointTexts : TypeWaypoint(value)
  \/ AddWaypointEnter
  \/ AddWaypointClick
  \/ \E i \in 1..Len(adds), answer \in addAnswers, now \in Readings :
       AddResponse(i, answer, now)
  \/ \E i \in 0..(Len(waypoints) - 1) : removeWaypoint(i)
  \/ clearWaypoints
  \/ ClickOptimize
  \/ \E i \in 1..Len(opts) :
       \E answer \in OptimizeAnswers(Len(opts[i].names)) : OptimizeResponse(i, answer)

\* The destination resolver in full, over a route fetcher that finds no
\* route.
SpecInput == Init /\ [][NextInput(Texts, LookupAnswers) \/ GeolocationDenied]_vars

\* getRoutes as SearchInput calls it through onDestinationSelect: with the
\* trimmed text of the input (handleSearch), or with the name and the center
\* of a suggestion (selectSuggestion).
getRoutes(dest, coordinates) ==
  /\ GetRoutes("getRoutes", dest, coordinates)
  /\ UNCHANGED <<userLocation, geolocation, routes, selectedRouteIndex,
                 showOptimization, mapRoutes>>
  /\ UNCHANGED <<classifyVars, inputVars, panelVars>>

\* The route fetcher in full, called as the destination resolver can call
\* it at any time.
SpecMap ==
  Init /\ [][\/ getRoutes(PlaceName(1), Undefined)
             \/ \E k \in Centers : getRoutes(Suggestion(k).place_name,
                                               Present(Suggestion(k).center))
             \/ NextMap]_vars

\* getRoutes called while earlier calls are still in flight: Enter in the
\* input and the choice of a suggestion call it whatever isLoading says.
getRoutesOverlapping(dest, coordinates) ==
  /\ GetRoutesWithin(MaxOverlap, "getRoutes", dest, coordinates)
  /\ UNCHANGED <<userLocation, geolocation, routes, selectedRouteIndex,
                 showOptimization, mapRoutes>>
  /\ UNCHANGED <<classifyVars, inputVars, panelVars>>

\* The route fetcher with overlapping searches: the text of the first place
\* submitted as typed, or a suggestion chosen.  The geocoder answers the
\* text with the center of the place of that name, with no feature, or
\* fails.
SpecOverlap ==
  Init /\ [][\/ getRoutesOverlapping(PlaceName(1), Undefined)
             \/ \E k \in Centers : getRoutesOverlapping(Suggestion(k).place_name,
                                                         Present(Suggestion(k).center))
             \/ GeolocationFix
             \/ GeolocationDenied
             \/ \E i \in 1..Len(searches) :
                  \E answer \in {Fail, Absent, Ok(Suggestion(1).center)} :
                    GeocodeResponse(i, answer)
             \/ \E i \in { j \in 1..Len(searches) : searches[j].pc = "directions" } :
                  \E answer \in DirectionsAnswers(ValueOf(searches[i].destCoords)) :
                    DirectionsResponse(i, answer)
             \/ \E index \in 0..(Len(routes) - 1) : selectRoute(index)]_vars

\* The destination resolver and the route fetcher together: the user types
\* one text, the lookups are answered in full, and no
\* directions request brings routes.
SpecSearch ==
  Init /\ [][NextInput({<<"a", "a", "a">>}, {Ok(Suggestions)}) \/ NextMapNoRoutes]_vars

\* The optimizer as the user drives it.
SpecPanel == Init /\ [][GeolocationFix \/ GeolocationDenied \/ NextPanel(AddAnswers)]_vars

\* The optimizer as the user drives it, and optimizeRoute called whatever
\* the Optimize button's disabled attribute says: the button is disabled
\* on every state optimizeRoute rejects, so that only a direct call reaches
\* the rejecting branch.  The geocoder answers every add with a failure,
\* with no feature or with the first place: what optimizeRoute tests is the
\* number of waypoints, whatever their names.
SpecPanelCalls ==
  Init /\ [][\/ GeolocationFix
             \/ GeolocationDenied
             \/ NextPanel({Fail, Ok(<<>>), Ok(<<1>>)})
             \/ optimizeRoute]_vars

(***************************************************************************)
(* Properties of the route classification, under SpecClassify.             *)
(***************************************************************************)
\* C1: for every list of congestion tags the severity of the route built
\* from it is "heavy" if a tag is severe, otherwise "moderate" if a tag is
\* heavy, otherwise "light" if a tag is moderate, otherwise "free".
SeverityFollowsPriority ==
  classified # Undefined =>
    LET tags == IF congestionIn = Undefined THEN <<>> ELSE congestionIn[1]
        any(tag) == \E i \in 1..Len(tags) : tags[i] = tag
        severity == classified[1].trafficLevel
    IN /\ any("severe") => severity = "heavy"
       /\ ~any("severe") /\ any("heavy") => severity = "moderate"
       /\ ~any("severe") /\ ~any("heavy") /\ any("moderate") => severity = "light"
       /\ ~any("severe") /\ ~any("heavy") /\ ~any("moderate") => severity = "free"

\* C1, the case reached: a route with a heavy and a moderate segment before
\* its one severe segment has been classified, as "heavy".
SevereDominates ==
  /\ congestionIn = Present(<<"heavy", "moderate", "severe">>)
  /\ classified # Undefined
  /\ classified[1].trafficLevel = "heavy"

\* C2: the has-traffic flag of a route is true exactly when a congestion
\* tag of its first leg is moderate, heavy or severe; an empty or absent
\* tag list gives no traffic and "free", the list of one moderate tag gives
\* traffic and "light".
HasTrafficIffCongested ==
  classified # Undefined =>
    LET tags == IF congestionIn = Undefined THEN <<>> ELSE congestionIn[1]
        route == classified[1]
    IN /\ route.hasTraffic <=>
            \E i \in 1..Len(tags) : tags[i] \in {"moderate", "heavy", "severe"}
       /\ tags = <<>> => ~route.hasTraffic /\ route.trafficLevel = "free"
       /\ tags = <<"moderate">> => route.hasTraffic /\ route.trafficLevel = "light"

\* C2, the case reached: the route whose only tag is moderate has been
\* classified, with traffic and "light".
ModerateAloneIsLight ==
  /\ congestionIn = Present(<<"moderate">>)
  /\ classified # Undefined
  /\ classified[1].hasTraffic
  /\ classified[1].trafficLevel = "light"

(***************************************************************************)
(* Properties of the route fetcher, under SpecMap.                         *)
(***************************************************************************)
\* C3: whenever the route list is not empty, the selected route index is
\* one of its indices.
SelectedIndexValid ==
  routes # <<>> => 0 <= selectedRouteIndex /\ selectedRouteIndex < Len(routes)

\* C4: when a search has just replaced the route list, the selected route
\* index is zero.
SearchResetsSelection ==
  lastOp = "getRoutes:routes" => selectedRouteIndex = 0

\* C8: a search that brings routes raises the advisory exactly when route 0
\* has traffic and another route has none or is rated free, and it leaves
\* the selected route index as it was.
AdvisoryIffBetterAlternative ==
  [][ lastOp' = "getRoutes:routes" =>
        /\ (\E t \in 1..Len(toasts') : toasts'[t] = "Traffic Detected!") <=>
             /\ routes'[1].hasTraffic
             /\ \E i \in 2..Len(routes') :
                  ~routes'[i].hasTraffic \/ routes'[i].trafficLevel = "free"
        /\ selectedRouteIndex' = selectedRouteIndex ]_vars

\* C8, the case reached: with route 1 selected, a search has brought a
\* "moderate" route 0 and a "free" route 1 and has raised the advisory.
AdvisoryRaised ==
  /\ lastOp = "getRoutes:routes"
  /\ Len(routes) = 2
  /\ routes[1].trafficLevel = "moderate"
  /\ routes[2].trafficLevel = "free"
  /\ toasts = <<"Traffic Detected!">>
  /\ selectedRouteIndex = 1

(***************************************************************************)
(* Properties of the resolver and the fetcher together, under SpecSearch.  *)
(***************************************************************************)
\* C5: from the selection of a suggestion until the user next types or
\* submits, no request goes to the geocoding service for the selected name:
\* getRoutes issues no geocode and the input issues no lookup for it.
SelectionIssuesNoGeocoding ==
  lastInput = "selected" =>
    /\ \A r \in 1..Len(requests) : requests[r] # "geocode"
    /\ ~ /\ \E r \in 1..Len(requests) : requests[r] = "autocomplete"
         /\ lookups[Len(lookups)] = query

\* C6: a submission of raw text with an origin resolved issues one geocode
\* request and nothing else; a search called without coordinates has made
\* exactly one geocode call, and its one directions call only once the
\* geocode has been answered.
RawSubmitGeocodesOnce ==
  /\ ( /\ lastOp \in {"handleSearch:enter", "handleSearch:click"}
       /\ userLocation # Null
       /\ Trim(query) # <<>> )
       => /\ requests = <<"geocode">>
          /\ searches # <<>>
          /\ searches[Len(searches)].coordinates = Undefined
  /\ \A i \in 1..Len(searches) :
       searches[i].coordinates = Undefined =>
         /\ searches[i].geocodeCalls = 1
         /\ searches[i].directionsCalls = IF searches[i].pc = "geocode" THEN 0 ELSE 1
  /\ lastOp = "getRoutes:geocoded" => requests = <<"directions">>

\* C6, the case reached: the search of a submitted text has had its geocode
\* answered and has its directions request in flight.
RawSubmitReachesDirections ==
  /\ lastInput = "submitted"
  /\ lastOp = "getRoutes:geocoded"
  /\ \E i \in 1..Len(searches) :
       /\ searches[i].coordinates = Undefined
       /\ searches[i].pc = "directions"
       /\ searches[i].geocodeCalls = 1

(***************************************************************************)
(* Properties of the optimizer, under SpecPanelCalls.                      *)
(***************************************************************************)
\* C7: optimizeRoute run with fewer than two waypoints or without an origin
\* issues no request, raises the validation toast and leaves the waypoint
\* list, the busy flag and the requests in flight as they were.
RejectedOptimizationChangesNothing ==
  [][ ( /\ lastOp' \in {"optimizeRoute:rejected", "optimizeRoute:requested"}
        /\ (Len(waypoints) < 2 \/ userLocation = Null) )
        => /\ requests' = <<>>
           /\ toasts' = <<"Need more waypoints">>
           /\ waypoints' = waypoints
           /\ isOptimizing' = isOptimizing
           /\ opts' = opts ]_vars

\* C7, the case reached: optimizeRoute has rejected a list of one waypoint
\* with the origin known.
OptimizationRejected ==
  /\ lastOp = "optimizeRoute:rejected"
  /\ userLocation # Null
  /\ Len(waypoints) = 1
  /\ toasts = <<"Need more waypoints">>
  /\ requests = <<>>

(***************************************************************************)
(* Properties of the destination resolver, under SpecInput.                *)
(***************************************************************************)
\* C9: at most one debounce timer is pending, the pending timer is the one
\* of the current query, and a lookup just issued is for the current query.
DebounceKeepsOneTimer ==
  /\ Cardinality(timers) <= 1
  /\ timers \subseteq {query}
  /\ lastOp = "debounce:lookup" => lookups[Len(lookups)] = query

\* C9, the case reached: after a lookup for an earlier text, the timer of
\* the text typed over it has expired and issued the lookup for that text.
SecondLookupForCurrentQuery ==
  /\ lastOp = "debounce:lookup"
  /\ Len(lookups) = 2
  /\ lookups[1] # lookups[2]
  /\ lookups[2] = query
  /\ timers = {}

\* C10: when the debounce has just expired on an empty or whitespace query,
\* no lookup has been issued and the suggestion list is empty.
BlankQueryHasNoSuggestions ==
  ( /\ lastOp \in {"debounce:return", "debounce:clear", "debounce:lookup"}
    /\ Trim(query) = <<>> )
    => /\ requests = <<>>
       /\ suggestions = <<>>

\* C11: when the debounce has just expired on a query that is neither empty
\* nor whitespace, an autocomplete lookup has been issued for it, whatever
\* its length.
EveryQueryIsLookedUp ==
  ( /\ lastOp \in {"debounce:return", "debounce:clear", "debounce:lookup"}
    /\ Trim(query) # <<>> )
    => /\ requests = <<"autocomplete">>
       /\ lookups # <<>>
       /\ lookups[Len(lookups)] = query

\* C12: a geocode of getRoutes that finds no feature raises "Destination
\* Not Found" and nothing else, ends the search without a directions
\* request, clears the loading flag and leaves the routes, the selected
\* index and the map as they were.
NotFoundStopsTheSearch ==
  [][ lastOp' = "getRoutes:notfound" =>
        /\ toasts' = <<"Destination Not Found">>
        /\ requests' = <<>>
        /\ \E i \in 1..Len(searches) :
             /\ searches[i].pc = "geocode"
             /\ searches[i].directionsCalls = 0
             /\ searches' = SubSeq(searches, 1, i - 1)
                              \o SubSeq(searches, i + 1, Len(searches))
        /\ isLoading' = FALSE
        /\ routes' = routes
        /\ selectedRouteIndex' = selectedRouteIndex
        /\ mapRoutes' = mapRoutes ]_vars

\* C12, the case reached: with two routes listed and route 1 selected, the
\* geocode of a new search has found nothing.
NotFoundAfterRoutes ==
  /\ lastOp = "getRoutes:notfound"
  /\ Len(routes) = 2
  /\ selectedRouteIndex = 1
  /\ mapRoutes.kind = "routes"
  /\ ~isLoading
  /\ searches = <<>>

\* C13: a route search that fails raises "Route Error" once, issues no
\* further request and leaves the routes, the selected index and the routes
\* drawn on the map as they were.
FailedSearchChangesNothing ==
  [][ lastOp' = "getRoutes:error" =>
        /\ toasts' = <<"Route Error">>
        /\ requests' = <<>>
        /\ routes' = routes
        /\ selectedRouteIndex' = selectedRouteIndex
        /\ mapRoutes' = mapRoutes ]_vars

(***************************************************************************)
(* Properties of the optimizer, under SpecPanel.                           *)
(***************************************************************************)
\* C14: at most one trip-optimization request is in flight at a time.
AtMostOneOptimization == Len(opts) <= 1

\* C15: no two waypoints of the list share an identifier.
WaypointIdsUnique ==
  \A i, j \in 1..Len(waypoints) : waypoints[i].id = waypoints[j].id => i = j

(***************************************************************************)
(* Further properties of the destination resolver, under SpecInput.        *)
(***************************************************************************)
\* C16: the cursor over the suggestions is the no-selection value or an
\* index of the current suggestion list.
CursorInRange ==
  selectedIndex = -1 \/ selectedIndex \in 0..(Len(suggestions) - 1)

(***************************************************************************)
(* Further properties of the optimizer, under SpecPanel.                   *)
(***************************************************************************)
\* C17: a response with a trip makes exactly one call of onOptimizedRoute
\* and closes the panel; the list passed names the origin first, and at
\* every other position the entry of the chain (the origin, then the
\* waypoints of the request in list order) that the returned index refers
\* to, or "Stop N" for position N when the index refers to no waypoint.
OptimizedNamesFollowOrder ==
  [][ lastOp' = "optimizeRoute:optimized" =>
        /\ Len(emitted') = 1
        /\ ~showOptimization'
        /\ \E i \in 1..Len(opts) :
             LET chain == <<<<"Your Location">>>> \o opts[i].names
                 order == emitted'[1].waypointOrder
                 names == emitted'[1].waypoints
             IN /\ Len(opts') = Len(opts) - 1
                /\ Len(names) = Len(order)
                /\ names[1] = <<"Your Location">>
                /\ \A p \in 2..Len(order) :
                     names[p] = IF order[p] >= 1 /\ order[p] + 1 <= Len(chain)
                                THEN chain[order[p] + 1]
                                ELSE <<"Stop ">> \o [t \in 1..(p - 1) |-> "|"] ]_vars

\* C17, the case reached: for the waypoints of place 1 and place 2 the
\* service has returned the order origin, second, first, and the names
\* passed on are the origin, place 2, place 1.
OptimizedOrderSwapsStops ==
  /\ lastOp = "optimizeRoute:optimized"
  /\ ~showOptimization
  /\ emitted = << [ waypointOrder |-> <<0, 2, 1>>,
                    waypoints     |-> <<YourLocation, PlaceName(2), PlaceName(1)>> ] >>

(***************************************************************************)
(* The race of the lookups in flight, under SpecInput.                     *)
(***************************************************************************)
\* C18: issuing a lookup aborts none of the lookups in flight, and every
\* response with features replaces the displayed list, whichever lookup it
\* answers and whatever the query is by then.
StaleResponsesAreDisplayed ==
  [][ /\ lastOp' = "debounce:lookup" => lookups' = lookups \o <<query>>
      /\ lastOp' = "searchSuggestions:features" =>
           /\ Len(lookups') = Len(lookups) - 1
           /\ \E i \in 1..Len(lookups) : answered' = <<lookups[i]>>
           /\ showSuggestions'
           /\ selectedIndex' = -1 ]_vars

\* C18, the case reached: the lookup for the current query was issued last
\* and has been answered, then the response to the lookup for an earlier
\* text has arrived, and its features are the list displayed.
StaleSuggestionsShown ==
  /\ lastOp = "searchSuggestions:features"
  /\ answered # <<>>
  /\ answered[1] # query
  /\ Len(query) > 2
  /\ Trim(query) # <<>>
  /\ timers = {}
  /\ lookups = <<>>
  /\ suggestions # <<>>
  /\ showSuggestions

(***************************************************************************)
(* Further properties of the resolver and the fetcher together, under      *)
(* SpecSearch.                                                             *)
(***************************************************************************)
\* C19: from the selection of a suggestion until the user next types or
\* submits, the suggestion list is empty and the dropdown is hidden.
SelectionDiscardsSuggestions ==
  lastInput = "selected" => suggestions = <<>> /\ ~showSuggestions

(***************************************************************************)
(* Further properties of the route fetcher, under SpecMap.                 *)
(***************************************************************************)
\* C20: when selectRoute has just redrawn the routes, the route drawn as
\* highlighted is the selected route.
HighlightIsSelectedRoute ==
  (lastOp = "selectRoute" /\ mapRoutes.kind = "routes")
    => mapRoutes.highlight = selectedRouteIndex

(***************************************************************************)
(* Properties of overlapping route searches, under SpecOverlap.            *)
(***************************************************************************)
\* C21: the loading flag is set exactly while a route search is in flight:
\* set whenever at least one getRoutes call has not settled, also when a
\* second call started before the first settled, and clear once every call
\* has settled.
LoadingIffSearchInFlight == isLoading <=> Len(searches) > 0

\* C22: when the second of two overlapping route searches settles with
\* routes right after the first one did, the route list is the one computed
\* for the place held in destination, the most recently requested one,
\* whichever of the two responses arrived first.
OverlappingSearchesShowLatest ==
  [][ ( /\ Len(searches) = 1
        /\ lastOp = "getRoutes:routes"
        /\ searches' = <<>>
        /\ lastOp' = "getRoutes:routes" )
      => \E k \in Centers : /\ destination' = Suggestion(k).place_name
                            /\ routes'[1].geometry = Suggestion(k).center ]_vars

(***************************************************************************)
(* Properties of the outcome of every request, under SpecMap.              *)
(***************************************************************************)
\* C23: when a route search or an optimization request has just settled,
\* either its result is what the map displays (the routes of the search, or
\* the optimized path), or a failure notification has been raised; none
\* settles without either, an empty list of routes or trips included.
EverySettledRunIsVisible ==
  lastOp \in { "getRoutes:error", "getRoutes:notfound", "getRoutes:empty",
               "getRoutes:routes", "optimizeRoute:error", "optimizeRoute:empty",
               "optimizeRoute:optimized" }
    => \/ \E t \in 1..Len(toasts) :
            toasts[t] \in {"Route Error", "Destination Not Found", "Optimization failed"}
       \/ /\ lastOp = "getRoutes:routes"
          /\ mapRoutes.kind = "routes"
          /\ mapRoutes.routes = routes
       \/ /\ lastOp = "optimizeRoute:optimized"
          /\ mapRoutes = OptimizedLayer

====
